---- MODULE Spec2Model ----
(***************************************************************************)
(* Model of src/teste.py: the synthetic-data generators, the derived       *)
(* aggregators, the Parquet snapshot cache (carregar_ou_gerar_dados) and   *)
(* the sidebar filter with its KPI reductions.                             *)
(*                                                                         *)
(* Four specifications share the variables:                                *)
(*   Spec        the snapshot cache as a state machine over the data       *)
(*               directory (calls, the nine writes, the nine reads, an     *)
(*               aborted generation, a deleted artifact);                  *)
(*   SpecFiltro  filtrar_vendas and the KPI block, re-run on every change  *)
(*               of the sidebar widgets;                                   *)
(*   SpecGer     gerar_vendas and gerar_colaboradores over their draws,    *)
(*               and the consumers of their tables;                        *)
(*   SpecAgg     gerar_estoque, gerar_financeiro and gerar_operacoes over  *)
(*               Sales tables.                                             *)
(* A specification leaves the variables of the others at their idle value. *)
(***************************************************************************)
EXTENDS Integers, Sequences, FiniteSets, TLC

VARIABLES
    \* the snapshot cache
    arquivos, pc, gerou, nfaltando, salvos, lidos, lendo, run, dfs, seguidas,
    \* the sidebar filter and the KPI block
    vendas, periodo, regiao_sel, produtos_sel, categoria_sel,
    df_vendas_f, receita_total, lucro_total, qtd_pedidos, ticket_medio,
    \* the entity generators: the last call and the table it returned
    chamada, df_gerado,
    \* the derived aggregators: the Sales table, how far the pipeline is, and
    \* the five derived tables
    df_vendas, etapa, df_estoque, df_rec, df_desp, df_prod, df_log

cacheVars == <<arquivos, pc, gerou, nfaltando, salvos, lidos, lendo, run, dfs, seguidas>>

filtroVars == <<vendas, periodo, regiao_sel, produtos_sel, categoria_sel,
                df_vendas_f, receita_total, lucro_total, qtd_pedidos, ticket_medio>>

gerVars == <<chamada, df_gerado>>

aggVars == <<df_vendas, etapa, df_estoque, df_rec, df_desp, df_prod, df_log>>

vars == <<cacheVars, filtroVars, gerVars, aggVars>>

\* what the snapshot-cache specification leaves alone
foraDoCache == <<filtroVars, gerVars, aggVars>>

\* what the filter specification leaves alone
foraDoFiltro == <<cacheVars, gerVars, aggVars>>

\* what the generator specification leaves alone
foraDoGer == <<cacheVars, filtroVars, aggVars>>

\* what the aggregator specifications leave alone
foraDoAgg == <<cacheVars, filtroVars, gerVars>>

(***************************************************************************)
(* Bounds                                                                  *)
(***************************************************************************)
\* number of generation runs a behaviour may start
MaxRuns == 2

\* rows of a Sales table handed to the filter
MaxLinhas == 2

\* calendar days the sampled Sales timestamps fall on
NumDias == 2

\* how many of REGIOES, PRODUTOS and CATEGORIAS the sampled Sales rows use
NumRegioes == 2

NumProdutos == 2

NumCategorias == 1

\* how many of DEPARTAMENTOS the sampled employees use
NumDepartamentos == 2

\* largest row count n asked of a generator
MaxN == 2

\* largest count asked of a generator whose table is handed on to a consumer
MaxContagem == 1

\* largest number of weeks asked of gerar_jornada
MaxSemanas == 2

\* calendar months the sampled Sales rows of the aggregators fall in
NumMeses == 3

\* rows of a Sales table of one product line handed to gerar_estoque
MaxLinhasEstoque == 4

\* clock ticks per second: timestamps are finer than the second
TicksPorSegundo == 2

(***************************************************************************)
(* Reference data                                                          *)
(***************************************************************************)
REGIOES == << "Norte", "Nordeste", "Centro-Oeste", "Sudeste", "Sul" >>

ESTADOS_POR_REGIAO ==
    [ r \in { REGIOES[i] : i \in 1..Len(REGIOES) } |->
        CASE r = "Norte"        -> << "AM", "PA", "RO", "RR", "AP", "AC", "TO" >>
          [] r = "Nordeste"     -> << "BA", "PE", "CE", "MA", "PB", "SE", "RN", "AL", "PI" >>
          [] r = "Centro-Oeste" -> << "GO", "MT", "MS", "DF" >>
          [] r = "Sudeste"      -> << "SP", "RJ", "MG", "ES" >>
          [] r = "Sul"          -> << "PR", "SC", "RS" >> ]

PRODUTOS == << "Produto A", "Produto B", "Produto C", "Produto D", "Produto E" >>

CATEGORIAS == << "Linha Casa", "Linha Escritorio", "Linha Premium" >>

DEPARTAMENTOS == << "Comercial", "Financeiro", "RH", "TI", "Operacoes", "Logistica" >>

\* preco_base of gerar_vendas
preco_base ==
    [ p \in { PRODUTOS[i] : i \in 1..Len(PRODUTOS) } |->
        CASE p = "Produto A" -> 80
          [] p = "Produto B" -> 120
          [] p = "Produto C" -> 200
          [] p = "Produto D" -> 300
          [] p = "Produto E" -> 500 ]

\* the elements of a sequence
Elementos(seq) == { seq[i] : i \in 1..Len(seq) }

\* the first n elements of a sequence, as a set
Primeiros(seq, n) == { seq[i] : i \in 1..(IF n < Len(seq) THEN n ELSE Len(seq)) }

(***************************************************************************)
(* Time: a timestamp is a number of ticks since midnight of day 0, a date  *)
(* (what st.date_input returns) is a day number                            *)
(***************************************************************************)
SegundosPorDia == 86400

\* pd.Timedelta(seconds=1)
Segundo == TicksPorSegundo

\* pd.Timedelta(days=1)
Dia == SegundosPorDia * TicksPorSegundo

\* pd.to_datetime(date): midnight of that day
to_datetime(d) == d * Dia

\* the calendar day a timestamp falls on (Timestamp.date())
DiaDe(ts) == ts \div Dia

(***************************************************************************)
(* Snapshot cache: carregar_ou_gerar_dados, salvar_parquet                 *)
(***************************************************************************)
\* the nine artifact names, in the order the code writes and reads them
paths == << "colaboradores.parquet", "vendedores.parquet", "vendas.parquet",
            "estoque.parquet", "jornada.parquet", "financeiro_receitas.parquet",
            "financeiro_despesas.parquet", "producao.parquet", "logistica.parquet" >>

NomesArtefatos == { paths[i] : i \in 1..Len(paths) }

\* a file that is not in the data directory
Ausente == 0

\* a value that stands for "no dataset returned yet"
Nenhum == [ p \in NomesArtefatos |-> Ausente ]

\* os.path.exists
exists(arqs, p) == arqs[p] # Ausente

\* the artifacts a call does not find
Faltantes(arqs) == { p \in NomesArtefatos : ~ exists(arqs, p) }

\* a loader that ignores the cache and regenerates on every call
PrecisaGerar_sempre(arqs) == TRUE

\* the branch condition of carregar_ou_gerar_dados: not all(os.path.exists(p))
PrecisaGerar(arqs) == ~ (\A p \in NomesArtefatos : exists(arqs, p))

\* a partial regeneration: only the artifacts that are missing are written
salvar_parquet_so_faltantes(arqs, nome, df) ==
    IF exists(arqs, nome) THEN arqs ELSE [ arqs EXCEPT ![nome] = df ]

\* salvar_parquet(nome, df): df.to_parquet overwrites the file of that name.
\* The content of the tables of one generation run is identified by the run
\* (the fake.name()/fake.company() draws are unseeded, so every run differs).
salvar_parquet(arqs, nome, df) == [ arqs EXCEPT ![nome] = df ]

\* pd.read_parquet(paths[nome]) (with the to_datetime re-parse of an already
\* date-typed column, which leaves the values as stored)
read_parquet(arqs, nome) == arqs[nome]

CacheInit ==
    /\ arquivos = [ p \in NomesArtefatos |-> Ausente ]
    /\ pc = "idle"
    /\ gerou = FALSE
    /\ nfaltando = 0
    /\ salvos = 0
    /\ lidos = 0
    /\ lendo = Nenhum
    /\ run = 0
    /\ dfs = Nenhum
    /\ seguidas = 0

\* the idle value of the cache variables in the other specifications
CacheParado == CacheInit

\* a call that finds an artifact missing: generates the nine tables in memory
ChamarGerar ==
    /\ pc = "idle"
    /\ PrecisaGerar(arquivos)
    /\ run < MaxRuns
    /\ run' = run + 1
    /\ gerou' = TRUE
    /\ nfaltando' = Cardinality(Faltantes(arquivos))
    /\ salvos' = 0
    /\ lidos' = 0
    /\ lendo' = Nenhum
    /\ pc' = "salvando"
    /\ UNCHANGED <<arquivos, dfs, seguidas>>
    /\ UNCHANGED foraDoCache

\* a call that finds all nine artifacts: goes straight to the loading block
ChamarCarregar ==
    /\ pc = "idle"
    /\ ~ PrecisaGerar(arquivos)
    /\ gerou' = FALSE
    /\ nfaltando' = Cardinality(Faltantes(arquivos))
    /\ salvos' = 0
    /\ lidos' = 0
    /\ lendo' = Nenhum
    /\ pc' = "carregando"
    /\ UNCHANGED <<arquivos, run, dfs, seguidas>>
    /\ UNCHANGED foraDoCache

\* the next of the nine salvar_parquet calls, in source order
SalvarParquet ==
    /\ pc = "salvando"
    /\ salvos < Len(paths)
    /\ arquivos' = salvar_parquet(arquivos, paths[salvos + 1], run)
    /\ salvos' = salvos + 1
    /\ pc' = IF salvos + 1 = Len(paths) THEN "carregando" ELSE "salvando"
    /\ UNCHANGED <<gerou, nfaltando, lidos, lendo, run, dfs, seguidas>>
    /\ UNCHANGED foraDoCache

\* the generation run ends with an exception (or the process is stopped)
\* before its next write: the call returns nothing
Abortar ==
    /\ pc = "salvando"
    /\ salvos < Len(paths)
    /\ pc' = "idle"
    /\ UNCHANGED <<arquivos, gerou, nfaltando, salvos, lidos, lendo, run, dfs, seguidas>>
    /\ UNCHANGED foraDoCache

\* the next of the nine pd.read_parquet calls of the dfs dictionary
LerParquet ==
    /\ pc = "carregando"
    /\ lidos < Len(paths)
    /\ lendo' = [ lendo EXCEPT ![paths[lidos + 1]] = read_parquet(arquivos, paths[lidos + 1]) ]
    /\ lidos' = lidos + 1
    /\ UNCHANGED <<arquivos, pc, gerou, nfaltando, salvos, run, dfs, seguidas>>
    /\ UNCHANGED foraDoCache

\* return dfs
Retornar ==
    /\ pc = "carregando"
    /\ lidos = Len(paths)
    /\ dfs' = lendo
    /\ seguidas' = IF seguidas < 2 THEN seguidas + 1 ELSE 2
    /\ pc' = "idle"
    /\ UNCHANGED <<arquivos, gerou, nfaltando, salvos, lidos, lendo, run>>
    /\ UNCHANGED foraDoCache

\* between two calls somebody deletes an artifact from the data directory
Apagar ==
    /\ pc = "idle"
    /\ \E p \in NomesArtefatos :
          /\ exists(arquivos, p)
          /\ arquivos' = [ arquivos EXCEPT ![p] = Ausente ]
    /\ seguidas' = 0
    /\ UNCHANGED <<pc, gerou, nfaltando, salvos, lidos, lendo, run, dfs>>
    /\ UNCHANGED foraDoCache

(***************************************************************************)
(* Sidebar filter and KPI block: filtrar_vendas, lines 282-320              *)
(***************************************************************************)
\* a row of the Sales table (the columns the filter and the KPIs read)
Venda(data, regiao, produto, categoria, valor_total, lucro) ==
    [ data |-> data, regiao |-> regiao, produto |-> produto, categoria |-> categoria,
      valor_total |-> valor_total, lucro |-> lucro ]

\* sampled times of day: midnight (what gerar_vendas produces) and the last
\* tick before the next midnight
HorasAmostra == { 0, Dia - 1 }

LinhasAmostra ==
    { Venda(to_datetime(d) + h, r, p, c, preco_base[p], preco_base[p] \div 4) :
        d \in 0..(NumDias - 1), h \in HorasAmostra,
        r \in Primeiros(REGIOES, NumRegioes),
        p \in Primeiros(PRODUTOS, NumProdutos),
        c \in Primeiros(CATEGORIAS, NumCategorias) }

\* df.sort_values("data"): the table is in ascending order of data
Ordenada(df) == \A i, j \in 1..Len(df) : i < j => df[i].data <= df[j].data

\* the Sales tables the filter is run on (never empty: the sidebar takes
\* min and max of the data column)
TabelasAmostra ==
    { df \in UNION { [ 1..k -> LinhasAmostra ] : k \in 1..MaxLinhas } : Ordenada(df) }

\* dfs["vendas"]["data"].min().date() and .max().date(); the table is sorted
min_date(df) == DiaDe(df[1].data)

max_date(df) == DiaDe(df[Len(df)].data)

\* the values st.date_input can return: a (start, end) pair within
\* [min_value, max_value], or a single date while the range is being picked
Periodos(df) ==
    LET dias == min_date(df)..max_date(df)
    IN  { par \in dias \X dias : par[1] <= par[2] }
          \cup { <<a>> : a \in dias }

\* Series.isin
isin(v, sel) == v \in sel

\* fim = pd.to_datetime(periodo[1]) + pd.Timedelta(days=1) - pd.Timedelta(seconds=1)
fim_do_periodo(per) == to_datetime(per[2]) + Dia - Segundo

\* filtrar_vendas(df) with the sidebar values it reads
filtrar_vendas(df, per, rs, ps, cs) ==
    LET ini == to_datetime(per[1])
        fim == fim_do_periodo(per)
        df1 == IF Len(per) = 2
               THEN SelectSeq(df, LAMBDA r : r.data >= ini /\ r.data <= fim)
               ELSE df
        df2 == SelectSeq(df1, LAMBDA r : isin(r.regiao, rs))
        df3 == SelectSeq(df2, LAMBDA r : isin(r.produto, ps))
    IN  SelectSeq(df3, LAMBDA r : isin(r.categoria, cs))

\* Series.sum() of a column; 0 for an empty table
RECURSIVE SomaColuna(_, _)
SomaColuna(df, col) ==
    IF Len(df) = 0 THEN 0 ELSE df[1][col] + SomaColuna(Tail(df), col)

\* Python's max(a, b)
Max(a, b) == IF a >= b THEN a ELSE b

\* a / b on numpy floats, kept as a fraction; a zero denominator gives no number
Dividir(a, b) ==
    IF b = 0 THEN [ nan |-> TRUE, num |-> a, den |-> b ]
             ELSE [ nan |-> FALSE, num |-> a, den |-> b ]

\* an average ticket without the guard on the row count
ticket_sem_guarda(receita, pedidos) == Dividir(receita, pedidos)

\* receita_total / max(qtd_pedidos, 1)
ticket(receita, pedidos) == Dividir(receita, Max(pedidos, 1))

\* one run of the script from the filter to the KPI metrics, for the widget
\* values per, rs, ps, cs
RodarScript(per, rs, ps, cs) ==
    LET f == filtrar_vendas(vendas, per, rs, ps, cs)
    IN  /\ periodo' = per
        /\ regiao_sel' = rs
        /\ produtos_sel' = ps
        /\ categoria_sel' = cs
        /\ df_vendas_f' = f
        /\ receita_total' = SomaColuna(f, "valor_total")
        /\ lucro_total' = SomaColuna(f, "lucro")
        /\ qtd_pedidos' = Len(f)
        /\ ticket_medio' = ticket(SomaColuna(f, "valor_total"), Len(f))
        /\ UNCHANGED vendas
        /\ UNCHANGED foraDoFiltro

\* the first run of the script: the widgets hold their defaults
FiltroInit ==
    /\ vendas \in TabelasAmostra
    /\ periodo = << min_date(vendas), max_date(vendas) >>
    /\ regiao_sel = Primeiros(REGIOES, NumRegioes)
    /\ produtos_sel = Primeiros(PRODUTOS, NumProdutos)
    /\ categoria_sel = Primeiros(CATEGORIAS, NumCategorias)
    /\ df_vendas_f = filtrar_vendas(vendas, periodo, regiao_sel, produtos_sel, categoria_sel)
    /\ receita_total = SomaColuna(df_vendas_f, "valor_total")
    /\ lucro_total = SomaColuna(df_vendas_f, "lucro")
    /\ qtd_pedidos = Len(df_vendas_f)
    /\ ticket_medio = ticket(receita_total, qtd_pedidos)

\* the idle value of the filter variables in the other specifications
FiltroParado ==
    /\ vendas = << >>
    /\ periodo = << >>
    /\ regiao_sel = {}
    /\ produtos_sel = {}
    /\ categoria_sel = {}
    /\ df_vendas_f = << >>
    /\ receita_total = 0
    /\ lucro_total = 0
    /\ qtd_pedidos = 0
    /\ ticket_medio = Dividir(0, 1)

\* the user changes the period widget; the script re-runs
MudarPeriodo ==
    \E per \in Periodos(vendas) :
        /\ per # periodo
        /\ RodarScript(per, regiao_sel, produtos_sel, categoria_sel)

\* the user changes the region multiselect; the script re-runs
MudarRegioes ==
    \E rs \in SUBSET Primeiros(REGIOES, NumRegioes) :
        /\ rs # regiao_sel
        /\ RodarScript(periodo, rs, produtos_sel, categoria_sel)

\* the user changes the product multiselect; the script re-runs
MudarProdutos ==
    \E ps \in SUBSET Primeiros(PRODUTOS, NumProdutos) :
        /\ ps # produtos_sel
        /\ RodarScript(periodo, regiao_sel, ps, categoria_sel)

\* the user changes the category multiselect; the script re-runs
MudarCategorias ==
    \E cs \in SUBSET Primeiros(CATEGORIAS, NumCategorias) :
        /\ cs # categoria_sel
        /\ RodarScript(periodo, regiao_sel, produtos_sel, cs)

(***************************************************************************)
(* Entity generators: gerar_colaboradores, gerar_vendas                    *)
(***************************************************************************)
\* a DataFrame: its columns and its rows (of a table of the generators the
\* rows keep the key columns; the other columns are independent draws)
DataFrame(colunas, linhas) == [ colunas |-> colunas, linhas |-> linhas ]

ColunasColab == { "id_colab", "nome", "departamento", "cargo", "salario", "idade",
                  "tempo_casa_meses", "regiao", "estado" }

ColunasVendas == { "data", "ano", "mes", "regiao", "estado", "produto", "categoria",
                   "quantidade", "valor_unit", "desconto", "valor_total", "margem_pct",
                   "lucro", "vendedor", "cliente" }

\* the outcomes of rng.choice(REGIOES) / _rand_choice(REGIOES, n), sampled
escolher_regiao == Primeiros(REGIOES, NumRegioes)

\* a state drawn from the states of all regions, whatever the row's region
escolher_estado_qualquer(regiao) ==
    UNION { Elementos(ESTADOS_POR_REGIAO[r]) : r \in DOMAIN ESTADOS_POR_REGIAO }

\* the outcomes of rng.choice(ESTADOS_POR_REGIAO[regiao]) and of
\* np.random.choice(ESTADOS_POR_REGIAO[r])
escolher_estado(regiao) == Elementos(ESTADOS_POR_REGIAO[regiao])

\* the rows one iteration of the loop of gerar_colaboradores can append
\* (id_colab is set from the loop index): estado is drawn from the states of
\* the regiao drawn just before
LinhasColab ==
    UNION { { [ departamento |-> dep, regiao |-> r, estado |-> e ] :
                dep \in Primeiros(DEPARTAMENTOS, NumDepartamentos),
                e \in escolher_estado(r) } :
            r \in escolher_regiao }

\* gerar_colaboradores(n): the tables it can return; pd.DataFrame([]) of an
\* empty list has no columns
gerar_colaboradores(n) ==
    { DataFrame(IF n = 0 THEN {} ELSE ColunasColab,
                [ i \in 1..n |-> [ id_colab |-> i, departamento |-> d[i].departamento,
                                   regiao |-> d[i].regiao, estado |-> d[i].estado ] ]) :
        d \in [ 1..n -> LinhasColab ] }

\* the outcomes of np.random.choice(dates, size=n): midnights of the range
escolher_dia == { to_datetime(d) : d \in 0..(NumDias - 1) }

\* the rows of the frame gerar_vendas builds from its column arrays; estados
\* is drawn element by element from the states of the region at that index
LinhasVendas ==
    UNION { { [ data |-> dt, regiao |-> r, estado |-> e ] :
                dt \in escolher_dia,
                e \in escolher_estado(r) } :
            r \in escolher_regiao }

\* the orders df.sort_values("data") can leave the rows in (quicksort is not
\* stable: rows of equal data come in any order)
sort_values(linhas) ==
    { s \in { [ i \in 1..Len(linhas) |-> linhas[pi[i]] ] :
                 pi \in { f \in [ 1..Len(linhas) -> 1..Len(linhas) ] :
                             \A i, j \in 1..Len(linhas) : i # j => f[i] # f[j] } } :
         Ordenada(s) }

\* gerar_vendas(n): the tables it can return
gerar_vendas(n) ==
    { DataFrame(ColunasVendas, s) :
        s \in UNION { sort_values(d) : d \in [ 1..n -> LinhasVendas ] } }

GerInit ==
    /\ chamada = [ fn |-> "nenhuma", n |-> 0 ]
    /\ df_gerado = DataFrame({}, << >>)

\* the idle value of the generator variables in the other specifications
GerParado == GerInit

\* one call of gerar_colaboradores (a behaviour is one call of a generator)
GerarColaboradores ==
    /\ chamada.fn = "nenhuma"
    /\ \E n \in 0..MaxN :
        /\ chamada' = [ fn |-> "gerar_colaboradores", n |-> n ]
        /\ df_gerado' \in gerar_colaboradores(n)
    /\ UNCHANGED foraDoGer

\* one call of gerar_vendas
GerarVendas ==
    /\ chamada.fn = "nenhuma"
    /\ \E n \in 0..MaxN :
        /\ chamada' = [ fn |-> "gerar_vendas", n |-> n ]
        /\ df_gerado' \in gerar_vendas(n)
    /\ UNCHANGED foraDoGer

(***************************************************************************)
(* Derived aggregators: gerar_estoque, gerar_financeiro, gerar_operacoes   *)
(***************************************************************************)
\* the day numbers (day 0 is 2024-01-01, the inicio of gerar_vendas) on which
\* the months of 2024 start, and the start of January 2025
InicioDosMeses == << 0, 31, 60, 91, 121, 152, 182, 213, 244, 274, 305, 335, 366 >>

\* the month (0 = January 2024) a timestamp falls in
MesDe(ts) ==
    CHOOSE m \in 0..(Len(InicioDosMeses) - 2) :
        /\ InicioDosMeses[m + 1] <= DiaDe(ts)
        /\ DiaDe(ts) < InicioDosMeses[m + 2]

\* the timestamp a month starts at: the label of a freq="MS" bin and the value
\* of dt.to_period("M").dt.to_timestamp()
InicioDoMes(m) == to_datetime(InicioDosMeses[m + 1])

\* quantities within the range of np.random.randint(1, 20, n)
QuantidadesAmostra == { 1, 13, 19 }

\* one sampled state of each sampled region
EstadosAmostra == { ESTADOS_POR_REGIAO[r][1] : r \in Primeiros(REGIOES, NumRegioes) }

\* a Sales row with the columns the aggregators read; valor_total is
\* quantidade * valor_unit (unit price at the base price, no discount)
VendaAgg(data, estado, produto, quantidade) ==
    [ data |-> data, estado |-> estado, produto |-> produto, quantidade |-> quantidade,
      valor_total |-> quantidade * preco_base[produto] ]

\* sampled Sales rows: one day in the middle of each sampled month
LinhasAgg ==
    { VendaAgg(InicioDoMes(m) + 14 * Dia, e, p, q) :
        m \in 0..(NumMeses - 1), e \in EstadosAmostra,
        p \in Primeiros(PRODUTOS, NumProdutos), q \in QuantidadesAmostra }

TabelasAgg ==
    { df \in UNION { [ 1..k -> LinhasAgg ] : k \in 1..MaxLinhas } : Ordenada(df) }

\* sampled Sales rows of one state and one month, for the sums of gerar_estoque
LinhasEstoque ==
    { VendaAgg(InicioDoMes(0) + 14 * Dia, ESTADOS_POR_REGIAO[REGIOES[1]][1], p, q) :
        p \in Primeiros(PRODUTOS, NumProdutos), q \in QuantidadesAmostra }

TabelasEstoque == UNION { [ 1..k -> LinhasEstoque ] : k \in 1..MaxLinhasEstoque }

\* the value of a np.random.uniform draw (or of a number derived from one),
\* kept as the interval it lies in
Sorteio(lo, hi) == [ min |-> lo, max |-> hi ]

\* a reorder point without the floor of 20
ponto_pedido_sem_clip(quantidade) == (quantidade * 3) \div 10

\* (quantidade * 0.3).astype(int).clip(lower=20): the float product is
\* truncated to an integer, then clipped from below
ponto_pedido(quantidade) == Max((quantidade * 3) \div 10, 20)

\* the groups of groupby(["produto", "estado"]): the pairs that occur in a row
chaves_produto_estado(df) == { << df[i].produto, df[i].estado >> : i \in 1..Len(df) }

\* gerar_estoque(df_vendas): one row per group (in key order; the order of the
\* rows is not modelled); giro_mensal is an independent draw and left out
gerar_estoque(df) ==
    { LET q == SomaColuna(SelectSeq(df, LAMBDA r : r.produto = k[1] /\ r.estado = k[2]),
                          "quantidade")
      IN  [ produto |-> k[1], estado |-> k[2],
            estoque_atual |-> Sorteio(q \div 2, 2 * q),
            ponto_pedido |-> ponto_pedido(q) ] :
        k \in chaves_produto_estado(df) }

\* a grouping by the months that occur in the rows
meses_observados(df) == { MesDe(df[i].data) : i \in 1..Len(df) }

\* the bins of groupby(pd.Grouper(key="data", freq="MS")): every month from
\* the month of the earliest row to the month of the latest one, also a month
\* in between that no row falls in (its sum is 0)
meses_do_grouper(df) ==
    { m \in 0..(Len(InicioDosMeses) - 2) :
        \E i, j \in 1..Len(df) : MesDe(df[i].data) <= m /\ m <= MesDe(df[j].data) }

\* a set of integers as the ascending sequence of its elements
RECURSIVE EmOrdem(_)
EmOrdem(S) ==
    IF S = {} THEN << >>
    ELSE LET x == CHOOSE y \in S : \A z \in S : y <= z
         IN  << x >> \o EmOrdem(S \ { x })

\* the four cost centres of an expense month with the range of their draw
CentrosDeCusto ==
    << [ conta |-> "Operacional", valor |-> Sorteio(120000, 220000) ],
       [ conta |-> "Pessoal",     valor |-> Sorteio(200000, 350000) ],
       [ conta |-> "Logistica",   valor |-> Sorteio(60000, 140000) ],
       [ conta |-> "Marketing",   valor |-> Sorteio(40000, 100000) ] >>

\* df_rec of gerar_financeiro: one row per bin, in ascending order of data
receitas(df) ==
    LET periodos == EmOrdem(meses_do_grouper(df))
    IN  [ i \in 1..Len(periodos) |->
            [ data |-> InicioDoMes(periodos[i]),
              valor |-> SomaColuna(SelectSeq(df, LAMBDA r : MesDe(r.data) = periodos[i]),
                                   "valor_total"),
              tipo |-> "Receita" ] ]

\* df_desp of gerar_financeiro: for each dt of periodos the four rows appended
\* in the loop
despesas(df) ==
    LET periodos == EmOrdem(meses_do_grouper(df))
        n == Len(CentrosDeCusto)
    IN  [ i \in 1..(n * Len(periodos)) |->
            [ data |-> InicioDoMes(periodos[((i - 1) \div n) + 1]),
              conta |-> CentrosDeCusto[((i - 1) % n) + 1].conta,
              valor |-> CentrosDeCusto[((i - 1) % n) + 1].valor,
              tipo |-> "Despesa" ] ]

\* the groups of groupby(["mes_ref", "estado"]): the pairs that occur in a row
chaves_mes_estado(df) == { << MesDe(df[i].data), df[i].estado >> : i \in 1..Len(df) }

\* prod of gerar_operacoes (rows in key order, order not modelled);
\* defeitos is int(uniform(0.5, 3.5) * len(s)); eficiencia_pct derives from it
producao(df) ==
    { LET s == SelectSeq(df, LAMBDA r : MesDe(r.data) = k[1] /\ r.estado = k[2])
      IN  [ mes_ref |-> InicioDoMes(k[1]), estado |-> k[2],
            qtd_produzida |-> SomaColuna(s, "quantidade"),
            defeitos |-> Sorteio(Len(s) \div 2, (7 * Len(s)) \div 2) ] :
        k \in chaves_mes_estado(df) }

\* log of gerar_operacoes (rows in key order, order not modelled);
\* custo_frete and tempo_medio_entrega_dias are float draws and left out
logistica(df) ==
    { [ mes_ref |-> InicioDoMes(k[1]), estado |-> k[2],
        pedidos |-> Len(SelectSeq(df, LAMBDA r : MesDe(r.data) = k[1] /\ r.estado = k[2])) ] :
        k \in chaves_mes_estado(df) }

\* the aggregator variables before any aggregator has run on the table df
AggAntes(df) ==
    /\ df_vendas = df
    /\ etapa = "inicio"
    /\ df_estoque = {}
    /\ df_rec = << >>
    /\ df_desp = << >>
    /\ df_prod = {}
    /\ df_log = {}

\* the idle value of the aggregator variables in the other specifications
AggParado == AggAntes(<< >>)

\* df_estoque = gerar_estoque(df_vendas)
GerarEstoque ==
    /\ etapa = "inicio"
    /\ df_estoque' = gerar_estoque(df_vendas)
    /\ etapa' = "estoque"
    /\ UNCHANGED <<df_vendas, df_rec, df_desp, df_prod, df_log>>
    /\ UNCHANGED foraDoAgg

\* df_rec, df_desp = gerar_financeiro(df_vendas)
GerarFinanceiro ==
    /\ etapa = "estoque"
    /\ df_rec' = receitas(df_vendas)
    /\ df_desp' = despesas(df_vendas)
    /\ etapa' = "financeiro"
    /\ UNCHANGED <<df_vendas, df_estoque, df_prod, df_log>>
    /\ UNCHANGED foraDoAgg

\* df_prod, df_log = gerar_operacoes(df_vendas)
GerarOperacoes ==
    /\ etapa = "financeiro"
    /\ df_prod' = producao(df_vendas)
    /\ df_log' = logistica(df_vendas)
    /\ etapa' = "operacoes"
    /\ UNCHANGED <<df_vendas, df_estoque, df_rec, df_desp>>
    /\ UNCHANGED foraDoAgg

(***************************************************************************)
(* Consumers of the generated tables: gerar_vendedores, gerar_jornada and  *)
(* the aggregators run on the table of gerar_vendas                        *)
(***************************************************************************)
\* an exception raised by a call, in place of the table it would return
Excecao(tipo) == [ erro |-> tipo ]

\* whether the outcome of a call is an exception
Levantou(r) == "erro" \in DOMAIN r

ColunasJornada == { "id_colab", "nome", "departamento", "semana", "data_ref",
                    "horas_semanais", "horas_extras", "faltas" }

\* gerar_vendedores(df_colab, n): df_colab["departamento"] raises KeyError on
\* a frame without that column; otherwise the first n names of the employees
\* of Comercial/Operacoes, padded with fake names up to n (the name of an
\* employee is identified by the employee)
gerar_vendedores(df_colab, n) ==
    IF "departamento" \notin df_colab.colunas
    THEN Excecao("KeyError")
    ELSE LET candidatos == SelectSeq(df_colab.linhas,
                                     LAMBDA r : r.departamento \in { "Comercial", "Operacoes" })
             nomes == [ i \in 1..Len(candidatos) |->
                          [ origem |-> "colaborador", id |-> candidatos[i].id_colab ] ]
             vendedores == IF Len(nomes) >= n THEN SubSeq(nomes, 1, n) ELSE nomes
             completos == vendedores \o
                          [ i \in 1..(n - Len(vendedores)) |-> [ origem |-> "fake", id |-> i ] ]
         IN  DataFrame({ "vendedor" }, SubSeq(completos, 1, n))

\* gerar_jornada(df_colab, semanas): one record per employee and week, in the
\* order of iterrows; the hour and absence columns are independent draws.
\* pd.DataFrame(registros) of an empty list has no columns
gerar_jornada(df_colab, semanas) ==
    LET registros ==
            [ k \in 1..(Len(df_colab.linhas) * semanas) |->
                [ id_colab |-> df_colab.linhas[((k - 1) \div semanas) + 1].id_colab,
                  departamento |-> df_colab.linhas[((k - 1) \div semanas) + 1].departamento,
                  semana |-> ((k - 1) % semanas) + 1 ] ]
    IN  DataFrame(IF Len(registros) = 0 THEN {} ELSE ColunasJornada, registros)

\* the columns of df_vendas the three aggregators index
ColunasLidas == { "data", "estado", "produto", "quantidade", "valor_total", "cliente" }

\* one call of gerar_vendedores on a table of gerar_colaboradores
GerarVendedores ==
    /\ chamada.fn = "nenhuma"
    /\ \E m \in 0..MaxContagem, n \in 0..MaxContagem :
          \E df_colab \in gerar_colaboradores(m) :
              /\ chamada' = [ fn |-> "gerar_vendedores", n |-> n, entrada |-> df_colab ]
              /\ df_gerado' = gerar_vendedores(df_colab, n)
    /\ UNCHANGED foraDoGer

\* one call of gerar_jornada on a table of gerar_colaboradores
GerarJornada ==
    /\ chamada.fn = "nenhuma"
    /\ \E m \in 0..MaxContagem, semanas \in 1..MaxSemanas :
          \E df_colab \in gerar_colaboradores(m) :
              /\ chamada' = [ fn |-> "gerar_jornada", n |-> semanas, entrada |-> df_colab ]
              /\ df_gerado' = gerar_jornada(df_colab, semanas)
    /\ UNCHANGED foraDoGer

\* df_vendas = gerar_vendas(n) followed by gerar_estoque, gerar_financeiro and
\* gerar_operacoes on it (the remaining columns of the rows: a sampled product,
\* quantity 1); an aggregator raises KeyError if a column it indexes is missing
GerarDerivados ==
    /\ chamada.fn = "nenhuma"
    /\ \E n \in 0..MaxContagem :
          \E v \in gerar_vendas(n) :
              \E prod \in [ 1..n -> Primeiros(PRODUTOS, NumProdutos) ] :
                  LET df == [ i \in 1..n |->
                                VendaAgg(v.linhas[i].data, v.linhas[i].estado, prod[i], 1) ]
                  IN  /\ chamada' = [ fn |-> "derivados", n |-> n ]
                      /\ df_gerado' = v
                      /\ df_vendas' = df
                      /\ IF ColunasLidas \subseteq v.colunas
                         THEN /\ df_estoque' = gerar_estoque(df)
                              /\ df_rec' = receitas(df)
                              /\ df_desp' = despesas(df)
                              /\ df_prod' = producao(df)
                              /\ df_log' = logistica(df)
                              /\ etapa' = "operacoes"
                         ELSE /\ etapa' = "KeyError"
                              /\ UNCHANGED <<df_estoque, df_rec, df_desp, df_prod, df_log>>
    /\ UNCHANGED <<cacheVars, filtroVars>>

(***************************************************************************)
(* The tables of a generation run of carregar_ou_gerar_dados, by their     *)
(* size, columns and column sums (draws kept as the interval they lie in)  *)
(***************************************************************************)
\* the counts the generation branch passes to the generators
N_COLAB == 300

N_VENDEDORES == 50

N_VENDAS == 15000

SEMANAS == 60

\* calendar months in pd.date_range("2024-01-01", "2025-10-01")
MesesDoIntervalo == 22

\* the smallest and the largest base price
PrecoMinimo == CHOOSE x \in { preco_base[p] : p \in DOMAIN preco_base } :
                   \A p \in DOMAIN preco_base : x <= preco_base[p]

PrecoMaximo == CHOOSE x \in { preco_base[p] : p \in DOMAIN preco_base } :
                   \A p \in DOMAIN preco_base : x >= preco_base[p]

\* bounds of valor_total = quantidade * valor_unit * (1 - desconto) of one
\* row, in whole reais: quantidade in 1..19, valor_unit in base * [0.9, 1.2],
\* desconto at most 0.15
ValorTotalMinimo == (1 * PrecoMinimo * 9 * 85) \div 1000

ValorTotalMaximo == (19 * PrecoMaximo * 12) \div 10

\* a Sales table that lost the lucro column
ResumoVendas_sem_lucro(n) ==
    [ linhas |-> n, colunas |-> ColunasVendas \ { "lucro" },
      valor_total |-> Sorteio(n * ValorTotalMinimo, n * ValorTotalMaximo) ]

\* gerar_vendas(n): n rows, its fifteen columns, the sum of valor_total
ResumoVendas(n) ==
    [ linhas |-> n, colunas |-> ColunasVendas,
      valor_total |-> Sorteio(n * ValorTotalMinimo, n * ValorTotalMaximo) ]

\* the number of month bins of the Grouper over the drawn dates
PeriodosDe(df_v) ==
    IF df_v.linhas = 0 THEN Sorteio(0, 0) ELSE Sorteio(1, MesesDoIntervalo)

\* df_rec of gerar_financeiro: the monthly sums add up to the sum of valor_total
ResumoReceitas(df_v) ==
    [ linhas |-> PeriodosDe(df_v), colunas |-> { "data", "valor", "tipo" },
      valor |-> df_v.valor_total ]

\* df_desp of gerar_financeiro: four draws per month bin
ResumoDespesas(df_v) ==
    [ linhas |-> Sorteio(4 * PeriodosDe(df_v).min, 4 * PeriodosDe(df_v).max),
      colunas |-> IF df_v.linhas = 0 THEN {} ELSE { "data", "conta", "valor", "tipo" },
      valor |-> Sorteio(PeriodosDe(df_v).min *
                          (CentrosDeCusto[1].valor.min + CentrosDeCusto[2].valor.min
                           + CentrosDeCusto[3].valor.min + CentrosDeCusto[4].valor.min),
                        PeriodosDe(df_v).max *
                          (CentrosDeCusto[1].valor.max + CentrosDeCusto[2].valor.max
                           + CentrosDeCusto[3].valor.max + CentrosDeCusto[4].valor.max)) ]

\* the nine tables of the generation branch, by the name they are saved under
TabelasGeradas ==
    [ p \in NomesArtefatos |->
        CASE p = "colaboradores.parquet" ->
                 [ linhas |-> N_COLAB, colunas |-> ColunasColab ]
          [] p = "vendedores.parquet" ->
                 [ linhas |-> N_VENDEDORES, colunas |-> { "vendedor" } ]
          [] p = "vendas.parquet" -> ResumoVendas(N_VENDAS)
          [] p = "estoque.parquet" ->
                 [ linhas |-> Sorteio(1, N_VENDAS),
                   colunas |-> { "produto", "estado", "estoque_atual", "ponto_pedido",
                                 "giro_mensal" } ]
          [] p = "jornada.parquet" ->
                 [ linhas |-> N_COLAB * SEMANAS, colunas |-> ColunasJornada ]
          [] p = "financeiro_receitas.parquet" -> ResumoReceitas(ResumoVendas(N_VENDAS))
          [] p = "financeiro_despesas.parquet" -> ResumoDespesas(ResumoVendas(N_VENDAS))
          [] p = "producao.parquet" ->
                 [ linhas |-> Sorteio(1, N_VENDAS),
                   colunas |-> { "mes_ref", "estado", "qtd_produzida", "defeitos",
                                 "eficiencia_pct" } ]
          [] p = "logistica.parquet" ->
                 [ linhas |-> Sorteio(1, N_VENDAS),
                   colunas |-> { "mes_ref", "estado", "pedidos", "custo_frete",
                                 "tempo_medio_entrega_dias" } ] ]

\* the table of a returned dataset d under the key of the file nome: what the
\* run that wrote the file saved (every run saves tables of these sizes)
TabelaLida(d, nome) ==
    IF d[nome] = Ausente THEN Excecao("FileNotFoundError") ELSE TabelasGeradas[nome]

(***************************************************************************)
(* Specifications                                                          *)
(***************************************************************************)
Init == CacheInit /\ FiltroParado /\ GerParado /\ AggParado

Next ==
    \/ ChamarGerar
    \/ ChamarCarregar
    \/ SalvarParquet
    \/ Abortar
    \/ LerParquet
    \/ Retornar
    \/ Apagar

Spec == Init /\ [][Next]_vars

InitFiltro == CacheParado /\ FiltroInit /\ GerParado /\ AggParado

NextFiltro ==
    \/ MudarPeriodo
    \/ MudarRegioes
    \/ MudarProdutos
    \/ MudarCategorias

SpecFiltro == InitFiltro /\ [][NextFiltro]_vars

InitGer == CacheParado /\ FiltroParado /\ GerInit /\ AggParado

NextGer ==
    \/ GerarColaboradores
    \/ GerarVendas
    \/ GerarVendedores
    \/ GerarJornada
    \/ GerarDerivados

SpecGer == InitGer /\ [][NextGer]_vars

InitAgg ==
    /\ CacheParado /\ FiltroParado /\ GerParado
    /\ \E df \in TabelasAgg : AggAntes(df)

NextAgg ==
    \/ GerarEstoque
    \/ GerarFinanceiro
    \/ GerarOperacoes

SpecAgg == InitAgg /\ [][NextAgg]_vars

InitEstoque ==
    /\ CacheParado /\ FiltroParado /\ GerParado
    /\ \E df \in TabelasEstoque : AggAntes(df)

NextEstoque == GerarEstoque

SpecEstoque == InitEstoque /\ [][NextEstoque]_vars

(***************************************************************************)
(* Claims about the snapshot cache (checked under Spec)                    *)
(***************************************************************************)
\* the artifacts the current call has read so far
JaLidos == { paths[i] : i \in 1..lidos }

\* C1: a call that finds at least one artifact missing writes all nine
\* artifacts anew (every file then holds the tables of this call's generation
\* run, not only the files that were missing), and it reads no artifact back
\* before the ninth write: while it is still writing it has read nothing, and
\* once it reads or has returned, every file and every table read is of this run.
C1_RegeneraTudoAntesDeLer ==
    /\ (pc = "salvando") => (lidos = 0 /\ lendo = Nenhum /\ nfaltando > 0)
    /\ (pc = "carregando" /\ nfaltando > 0) =>
          /\ salvos = Len(paths)
          /\ \A p \in NomesArtefatos : arquivos[p] = run
          /\ \A p \in JaLidos : lendo[p] = run

\* C1 witness: a call that found exactly one artifact missing, while the other
\* eight were those of an earlier run, has written and read back all nine
C1_Witness ==
    /\ pc = "carregando"
    /\ nfaltando = 1
    /\ run = 2
    /\ lidos = Len(paths)
    /\ \A p \in NomesArtefatos : lendo[p] = 2

\* C2: every dataset a call returns consists of nine artifacts written by one
\* and the same generation run (no partially generated dataset is observed),
\* also after an earlier run was aborted between two of its writes.
C2_NuncaParcial ==
    \A p, q \in NomesArtefatos : dfs[p] = dfs[q]

\* C3: a call that returns right after another returned call, with no artifact
\* deleted in between, returns nine tables equal to those of the call before.
C3_DuasChamadasIguais ==
    [][ (pc = "carregando" /\ pc' = "idle" /\ seguidas >= 1) => (dfs' = dfs) ]_vars

\* C3 witness: two calls in a row have returned with no deletion in between
C3_Witness ==
    /\ pc = "idle"
    /\ seguidas = 2
    /\ dfs # Nenhum

(***************************************************************************)
(* Claims about the filter and the KPIs (checked under SpecFiltro)         *)
(***************************************************************************)
\* the rows of a table, as a set
Linhas(df) == { df[i] : i \in 1..Len(df) }

\* C4: with a two-date period, filtrar_vendas returns exactly the rows of the
\* Sales table, in their order and unaltered, whose date lies in the period
\* and whose region, product and category are each in the selected set (so an
\* empty selection of any dimension gives zero rows).
C4_FiltroConjuncao ==
    (Len(periodo) = 2) =>
        df_vendas_f =
            SelectSeq(vendas, LAMBDA r :
                /\ DiaDe(r.data) >= periodo[1]
                /\ DiaDe(r.data) <= periodo[2]
                /\ r.regiao \in regiao_sel
                /\ r.produto \in produtos_sel
                /\ r.categoria \in categoria_sel)

\* C5: the upper bound of the period takes in the whole end day: every Sales
\* row whose timestamp falls on the calendar day of the end date (and that the
\* other predicates accept) is in the result, and no row of a later day is.
C5_DiaFinalInteiro ==
    (Len(periodo) = 2) =>
        \A r \in Linhas(vendas) :
            /\ ( /\ DiaDe(r.data) = periodo[2]
                 /\ r.regiao \in regiao_sel
                 /\ r.produto \in produtos_sel
                 /\ r.categoria \in categoria_sel ) => r \in Linhas(df_vendas_f)
            /\ (DiaDe(r.data) > periodo[2]) => r \notin Linhas(df_vendas_f)

\* C6: the KPI reductions over the filtered set always yield numbers and leave
\* the Sales table as it is: for an empty filtered set revenue, profit and
\* order count are 0 and the average ticket is 0 (denominator not 0); for a
\* non-empty one the average ticket is sum(valor_total) over the row count.
C6_KPIs ==
    /\ [] ( /\ ticket_medio.nan = FALSE
            /\ receita_total = SomaColuna(df_vendas_f, "valor_total")
            /\ lucro_total = SomaColuna(df_vendas_f, "lucro")
            /\ qtd_pedidos = Len(df_vendas_f)
            /\ (Len(df_vendas_f) = 0) =>
                  /\ receita_total = 0
                  /\ lucro_total = 0
                  /\ qtd_pedidos = 0
                  /\ ticket_medio.num = 0
                  /\ ticket_medio.den >= 1
            /\ (Len(df_vendas_f) > 0) =>
                  /\ ticket_medio.num = SomaColuna(df_vendas_f, "valor_total")
                  /\ ticket_medio.den = Len(df_vendas_f) )
    /\ [][ vendas' = vendas ]_vars

\* C6 witness: the script has re-run with a selection that filters every row
\* of a non-empty Sales table away
C6_Witness ==
    /\ Len(vendas) > 0
    /\ regiao_sel = {}
    /\ Len(df_vendas_f) = 0
    /\ ticket_medio = Dividir(0, 1)

(***************************************************************************)
(* Claims about the entity generators (checked under SpecGer)              *)
(***************************************************************************)
\* C7: every row returned by gerar_vendas and every row returned by
\* gerar_colaboradores has a state from the list ESTADOS_POR_REGIAO gives for
\* that row's own region, for every n and every outcome of the draws.
C7_EstadoDaRegiao ==
    (chamada.fn \in { "gerar_vendas", "gerar_colaboradores" }) =>
        \A i \in 1..Len(df_gerado.linhas) :
            \E k \in 1..Len(ESTADOS_POR_REGIAO[df_gerado.linhas[i].regiao]) :
                ESTADOS_POR_REGIAO[df_gerado.linhas[i].regiao][k] = df_gerado.linhas[i].estado

\* C7 witness: gerar_vendas returned rows of two different regions, sorted
C7_Witness ==
    /\ chamada.fn = "gerar_vendas"
    /\ Len(df_gerado.linhas) >= 2
    /\ df_gerado.linhas[1].regiao # df_gerado.linhas[2].regiao
    /\ df_gerado.linhas[1].data < df_gerado.linhas[2].data

(***************************************************************************)
(* Claims about the derived aggregators (checked under SpecAgg, C10 under  *)
(* SpecEstoque)                                                            *)
(***************************************************************************)
\* the months in which the Sales table has a row
MesesComVenda == { MesDe(df_vendas[i].data) : i \in 1..Len(df_vendas) }

\* C8: no aggregator invents keys: every (product, state) key of the Inventory
\* table, every (month, state) key of the Production and Logistics tables and
\* every month key of the Revenue and Expense tables occurs in at least one
\* row of the input Sales table.
C8_SemChavesInventadas ==
    /\ \A e \in df_estoque :
          \E i \in 1..Len(df_vendas) :
              df_vendas[i].produto = e.produto /\ df_vendas[i].estado = e.estado
    /\ \A o \in df_prod :
          \E i \in 1..Len(df_vendas) :
              InicioDoMes(MesDe(df_vendas[i].data)) = o.mes_ref /\ df_vendas[i].estado = o.estado
    /\ \A o \in df_log :
          \E i \in 1..Len(df_vendas) :
              InicioDoMes(MesDe(df_vendas[i].data)) = o.mes_ref /\ df_vendas[i].estado = o.estado
    /\ \A k \in 1..Len(df_rec) : MesDe(df_rec[k].data) \in MesesComVenda
    /\ \A k \in 1..Len(df_desp) : MesDe(df_desp[k].data) \in MesesComVenda

\* the first and the last month of the sales date range
PrimeiroMes == CHOOSE m \in MesesComVenda : \A x \in MesesComVenda : m <= x

UltimoMes == CHOOSE m \in MesesComVenda : \A x \in MesesComVenda : m >= x

\* C9: gerar_financeiro returns exactly one Revenue row for every calendar
\* month of the sales date range (from the month of the earliest sale to the
\* month of the latest) and exactly four Expense rows for each of those months,
\* one per cost centre Operacional, Pessoal, Logistica, Marketing; sales that
\* span exactly 3 months give exactly 3 Revenue rows and 12 Expense rows.
C9_UmaReceitaQuatroDespesas ==
    (etapa \in { "financeiro", "operacoes" }) =>
        /\ Len(df_rec) = UltimoMes - PrimeiroMes + 1
        /\ Len(df_desp) = 4 * (UltimoMes - PrimeiroMes + 1)
        /\ \A m \in PrimeiroMes..UltimoMes :
              /\ Len(SelectSeq(df_rec, LAMBDA r : r.data = InicioDoMes(m))) = 1
              /\ \A c \in { "Operacional", "Pessoal", "Logistica", "Marketing" } :
                    Len(SelectSeq(df_desp, LAMBDA r : r.data = InicioDoMes(m) /\ r.conta = c)) = 1
        /\ (UltimoMes - PrimeiroMes + 1 = 3) => (Len(df_rec) = 3 /\ Len(df_desp) = 12)

\* C9 witness: gerar_financeiro has run on sales of January and March only,
\* which span three calendar months
C9_Witness ==
    /\ etapa = "financeiro"
    /\ MesesComVenda = { 0, 2 }
    /\ Len(df_rec) = 3
    /\ Len(df_desp) = 12

\* the sum of Sales quantidade over the rows of a (product, state) pair
QuantidadeSomada(produto, estado) ==
    SomaColuna(SelectSeq(df_vendas, LAMBDA r : r.produto = produto /\ r.estado = estado),
               "quantidade")

\* C10 as stated: in every Inventory row ponto_pedido equals
\* max(20, 0.3 * summed_quantity) (compared in tenths), summed_quantity being
\* the Sales quantity summed over the row's (product, state) pair.
C10_PontoPedidoExato ==
    \A e \in df_estoque :
        10 * e.ponto_pedido = Max(200, 3 * QuantidadeSomada(e.produto, e.estado))

\* C10 amended: in every Inventory row ponto_pedido equals
\* max(20, 0.3 * summed_quantity) truncated to an integer, i.e.
\* max(20, floor(0.3 * summed_quantity)); consequently ponto_pedido >= 20.
C10_PontoPedidoTruncado ==
    \A e \in df_estoque :
        LET t == Max(200, 3 * QuantidadeSomada(e.produto, e.estado))
        IN  /\ 10 * e.ponto_pedido <= t
            /\ t < 10 * (e.ponto_pedido + 1)
            /\ e.ponto_pedido >= 20

\* C10 witness: an Inventory row of a pair whose quantities sum to 76, where
\* 0.3 * 76 = 22.8 lies above the floor of 20 and is not an integer
C10_Witness ==
    /\ etapa = "estoque"
    /\ \E e \in df_estoque :
          /\ QuantidadeSomada(e.produto, e.estado) = 76
          /\ e.ponto_pedido = 22

(***************************************************************************)
(* Claims about a count of zero (checked under SpecGer)                    *)
(***************************************************************************)
\* C11: a count of zero yields an empty table without error:
\* gerar_colaboradores(0), gerar_vendedores(df_colab, 0) and gerar_vendas(0)
\* return zero rows and raise nothing, and the consumers of those tables
\* (gerar_vendedores and gerar_jornada on the zero-employee table; the three
\* aggregators on the zero-row Sales table) complete without raising.
C11_ContagemZero ==
    /\ (chamada.fn \in { "gerar_colaboradores", "gerar_vendas" } /\ chamada.n = 0) =>
          (~ Levantou(df_gerado) /\ Len(df_gerado.linhas) = 0)
    /\ (chamada.fn = "gerar_vendedores" /\ chamada.n = 0 /\ Len(chamada.entrada.linhas) > 0) =>
          (~ Levantou(df_gerado) /\ Len(df_gerado.linhas) = 0)
    /\ (chamada.fn \in { "gerar_vendedores", "gerar_jornada" }
          /\ Len(chamada.entrada.linhas) = 0) =>
          ~ Levantou(df_gerado)
    /\ (chamada.fn = "derivados" /\ chamada.n = 0) =>
          (etapa = "operacoes" /\ ~ Levantou(df_gerado) /\ Len(df_gerado.linhas) = 0)

====
